---- MODULE Spec2Model ----
(***************************************************************************)
(* Model of package regen's generator executors (serialExecutor,          *)
(* forkJoinExecutor, executeGeneratorRepeatedly) and of GeneratorError.   *)
(*                                                                         *)
(* A Generator is the external collaborator whose Generate() returns one  *)
(* string (the executors use the call as a single string value).  The     *)
(* only way such a call can fail in Go is by panicking, so a generator is  *)
(* a record [panics, value]: value is the string it returns, or the value  *)
(* it panics with.                                                         *)
(*                                                                         *)
(* Go slices are indexed from 0; the loop variables and logs of the model  *)
(* keep Go's indices and At(s, i) reads element i of a slice.              *)
(***************************************************************************)
EXTENDS Integers, Sequences, FiniteSets, TLC

VARIABLES
    call,        \* the entry point used and its arguments
    generators,  \* the []Generator handed to both Execute calls
    sPc,         \* serialExecutor.Execute: position of the call
    sI,          \* serialExecutor.Execute: loop variable i
    buffer,      \* serialExecutor.Execute: bytes.Buffer contents
    sLog,        \* indices whose Generate the serial call invoked, in order
    sOut,        \* what the serial call handed to its caller
    fPc,         \* forkJoinExecutor.Execute: position of the launching goroutine
    fI,          \* forkJoinExecutor.Execute: loop variable i
    results,     \* forkJoinExecutor.Execute: the results slice
    waiter,      \* forkJoinExecutor.Execute: the sync.WaitGroup counter
    unit,        \* state of the goroutine launched for each index
    invoked,     \* number of Generate calls made on each index by the units
    doneOrder,   \* indices in the order their goroutines called waiter.Done
    fOut,        \* what the fork-join call handed to its caller
    crashed,     \* the process was terminated by an unrecovered goroutine panic
    err,         \* an error value under construction (generatorError)
    rendered,    \* the outcome of the last err.Error() call
    slotLog,     \* for each slot of results, the accesses made to it, in order
    numCpu,      \* var numCpu = runtime.NumCPU()
    counter,     \* internal state of the shared counting generators, by reference
    held,        \* the counter value each invocation in progress has read
    runs         \* the two calls made on one executor value, with their locals

auxVars == <<numCpu, counter, held, runs>>
execVars == <<call, generators, sPc, sI, buffer, sLog, sOut, fPc, fI, results,
              waiter, unit, invoked, doneOrder, fOut, crashed, slotLog, auxVars>>
errVars == <<err, rendered>>
vars == <<call, generators, sPc, sI, buffer, sLog, sOut, fPc, fI, results,
          waiter, unit, invoked, doneOrder, fOut, crashed, err, rendered,
          slotLog, numCpu, counter, held, runs>>

----------------------------------------------------------------------------
(* Bounds *)

MaxGens == 3

MaxDepth == 3

MaxCpu == 4

MaxReuse == 2

----------------------------------------------------------------------------
(* Generators and slices *)

Generator(panics, value) == [panics |-> panics, value |-> value]

GeneratorPool ==
    { Generator(FALSE, "a"), Generator(FALSE, "b"), Generator(TRUE, "boom") }

At(s, i) == s[i + 1]

\* The goroutine that called Execute, where the units are named by their index.
Launcher == -1

Write(by) == [op |-> "write", by |-> by]
Read(by) == [op |-> "read", by |-> by]

Indices(n) == 0 .. (n - 1)

RECURSIVE SeqsUpTo(_, _)
SeqsUpTo(S, n) ==
    IF n = 0 THEN { <<>> }
    ELSE LET shorter == SeqsUpTo(S, n - 1)
         IN  shorter \cup { Append(s, x) : s \in shorter, x \in S }

NoOutcome == [kind |-> "none", value |-> ""]
Returned(s) == [kind |-> "string", value |-> s]
Panicked(v) == [kind |-> "panic", value |-> v]

----------------------------------------------------------------------------
(* executeGeneratorRepeatedly *)

\* Mutant: the fill loop stops one element short (i < n-1).
executeGeneratorRepeatedlyShort(generator, n) ==
    [k \in 1 .. (IF n > 0 THEN n - 1 ELSE 0) |-> generator]

\* Mutant: every element is a copy of the generator with a state of its own.
executeGeneratorRepeatedlyCopies(generator, n) ==
    [k \in 1 .. n |-> [generator EXCEPT !.ref = k]]

executeGeneratorRepeatedly(generator, n) == [k \in 1 .. n |-> generator]

Calls ==
    { [via |-> "Execute", generators |-> gs] : gs \in SeqsUpTo(GeneratorPool, MaxGens) }
    \cup
    { [via |-> "executeGeneratorRepeatedly", generator |-> g, n |-> n] :
          g \in GeneratorPool, n \in 0 .. MaxGens }

TaskList(c) ==
    IF c.via = "Execute" THEN c.generators
    ELSE executeGeneratorRepeatedly(c.generator, c.n)

----------------------------------------------------------------------------
(* serialExecutor.Execute *)

SerialExecute ==
    /\ sPc = "idle"
    /\ buffer' = ""
    /\ sI' = 0
    /\ sPc' = "loop"
    /\ UNCHANGED <<call, generators, sLog, sOut, fPc, fI, results, waiter, unit,
                   invoked, doneOrder, fOut, crashed, err, rendered, slotLog, auxVars>>

SerialGenerate ==
    /\ sPc = "loop"
    /\ sI < Len(generators)
    /\ sLog' = Append(sLog, sI)
    /\ sPc' = "generating"
    /\ UNCHANGED <<call, generators, sI, buffer, sOut, fPc, fI, results, waiter,
                   unit, invoked, doneOrder, fOut, crashed, err, rendered, slotLog, auxVars>>

\* Mutant: the loop variable advances by two (i += 2).
SerialWriteSkip ==
    /\ sPc = "generating"
    /\ IF At(generators, sI).panics
       THEN /\ sPc' = "panicked"
            /\ sOut' = Panicked(At(generators, sI).value)
            /\ UNCHANGED <<buffer, sI>>
       ELSE /\ buffer' = buffer \o At(generators, sI).value
            /\ sI' = sI + 2
            /\ sPc' = "loop"
            /\ UNCHANGED sOut
    /\ UNCHANGED <<call, generators, sLog, fPc, fI, results, waiter, unit,
                   invoked, doneOrder, fOut, crashed, err, rendered, slotLog, auxVars>>

\* Mutant: each result is written in front of the buffer instead of appended.
SerialWritePrepend ==
    /\ sPc = "generating"
    /\ IF At(generators, sI).panics
       THEN /\ sPc' = "panicked"
            /\ sOut' = Panicked(At(generators, sI).value)
            /\ UNCHANGED <<buffer, sI>>
       ELSE /\ buffer' = At(generators, sI).value \o buffer
            /\ sI' = sI + 1
            /\ sPc' = "loop"
            /\ UNCHANGED sOut
    /\ UNCHANGED <<call, generators, sLog, fPc, fI, results, waiter, unit,
                   invoked, doneOrder, fOut, crashed, err, rendered, slotLog, auxVars>>

SerialWrite ==
    /\ sPc = "generating"
    /\ IF At(generators, sI).panics
       THEN /\ sPc' = "panicked"
            /\ sOut' = Panicked(At(generators, sI).value)
            /\ UNCHANGED <<buffer, sI>>
       ELSE /\ buffer' = buffer \o At(generators, sI).value
            /\ sI' = sI + 1
            /\ sPc' = "loop"
            /\ UNCHANGED sOut
    /\ UNCHANGED <<call, generators, sLog, fPc, fI, results, waiter, unit,
                   invoked, doneOrder, fOut, crashed, err, rendered, slotLog, auxVars>>

SerialReturn ==
    /\ sPc = "loop"
    /\ ~(sI < Len(generators))
    /\ sOut' = Returned(buffer)
    /\ sPc' = "returned"
    /\ UNCHANGED <<call, generators, sI, buffer, sLog, fPc, fI, results, waiter,
                   unit, invoked, doneOrder, fOut, crashed, err, rendered, slotLog, auxVars>>

----------------------------------------------------------------------------
(* forkJoinExecutor.Execute *)

RECURSIVE Join(_)
Join(elems) ==
    IF elems = <<>> THEN "" ELSE Head(elems) \o Join(Tail(elems))

\* Mutant: waiter.Add(numGens + 1).
FJExecuteAddOneMore ==
    /\ sPc \in {"returned", "panicked"}
    /\ fPc = "idle"
    /\ results' = [k \in 1 .. Len(generators) |-> ""]
    /\ waiter' = Len(generators) + 1
    /\ fI' = 0
    /\ fPc' = "loop"
    /\ UNCHANGED <<call, generators, sPc, sI, buffer, sLog, sOut, unit, invoked,
                   doneOrder, fOut, crashed, err, rendered, slotLog, auxVars>>

FJExecute ==
    /\ sPc \in {"returned", "panicked"}
    /\ fPc = "idle"
    /\ results' = [k \in 1 .. Len(generators) |-> ""]
    /\ waiter' = Len(generators)
    /\ fI' = 0
    /\ fPc' = "loop"
    /\ UNCHANGED <<call, generators, sPc, sI, buffer, sLog, sOut, unit, invoked,
                   doneOrder, fOut, crashed, err, rendered, slotLog, auxVars>>

FJGo ==
    /\ ~crashed
    /\ fPc = "loop"
    /\ fI < Len(generators)
    /\ unit' = [unit EXCEPT ![fI] = "ready"]
    /\ fI' = fI + 1
    /\ UNCHANGED <<call, generators, sPc, sI, buffer, sLog, sOut, fPc, results,
                   waiter, invoked, doneOrder, fOut, crashed, err, rendered, slotLog, auxVars>>

\* Mutant: waiter.Wait() is not called; the loop falls through to the join.
FJLoopExitSkipsWait ==
    /\ ~crashed
    /\ fPc = "loop"
    /\ ~(fI < Len(generators))
    /\ fPc' = "join"
    /\ UNCHANGED <<call, generators, sPc, sI, buffer, sLog, sOut, fI, results,
                   waiter, unit, invoked, doneOrder, fOut, crashed, err, rendered, slotLog, auxVars>>

FJLoopExit ==
    /\ ~crashed
    /\ fPc = "loop"
    /\ ~(fI < Len(generators))
    /\ fPc' = "wait"
    /\ UNCHANGED <<call, generators, sPc, sI, buffer, sLog, sOut, fI, results,
                   waiter, unit, invoked, doneOrder, fOut, crashed, err, rendered, slotLog, auxVars>>

\* Mutant: the goroutine calls waiter.Done() on entry instead of deferring it.
UnitGenerateDoneFirst(i) ==
    /\ ~crashed
    /\ unit[i] = "ready"
    /\ invoked' = [invoked EXCEPT ![i] = @ + 1]
    /\ unit' = [unit EXCEPT ![i] = "generating"]
    /\ waiter' = waiter - 1
    /\ UNCHANGED <<call, generators, sPc, sI, buffer, sLog, sOut, fPc, fI,
                   results, doneOrder, fOut, crashed, err, rendered, slotLog, auxVars>>

UnitGenerate(i) ==
    /\ ~crashed
    /\ unit[i] = "ready"
    /\ invoked' = [invoked EXCEPT ![i] = @ + 1]
    /\ unit' = [unit EXCEPT ![i] = "generating"]
    /\ UNCHANGED <<call, generators, sPc, sI, buffer, sLog, sOut, fPc, fI,
                   results, waiter, doneOrder, fOut, crashed, err, rendered, slotLog, auxVars>>

\* Mutant: the result goes to the next free slot, in completion order, as an
\* append to a shared slice would put it.
UnitStoreInCompletionOrder(i) ==
    /\ ~crashed
    /\ unit[i] = "generating"
    /\ IF At(generators, i).panics
       THEN /\ unit' = [unit EXCEPT ![i] = "panicking"]
            /\ UNCHANGED <<results, slotLog>>
       ELSE LET free == Cardinality({j \in DOMAIN unit :
                                        unit[j] \in {"stored", "done"}})
            IN  /\ results' = [results EXCEPT ![free + 1] = At(generators, i).value]
                /\ slotLog' = [slotLog EXCEPT ![free] = Append(@, Write(i))]
                /\ unit' = [unit EXCEPT ![i] = "stored"]
    /\ UNCHANGED <<call, generators, sPc, sI, buffer, sLog, sOut, fPc, fI,
                   waiter, invoked, doneOrder, fOut, crashed, err, rendered, auxVars>>

UnitStore(i) ==
    /\ ~crashed
    /\ unit[i] = "generating"
    /\ IF At(generators, i).panics
       THEN /\ unit' = [unit EXCEPT ![i] = "panicking"]
            /\ UNCHANGED <<results, slotLog>>
       ELSE /\ results' = [results EXCEPT ![i + 1] = At(generators, i).value]
            /\ slotLog' = [slotLog EXCEPT ![i] = Append(@, Write(i))]
            /\ unit' = [unit EXCEPT ![i] = "stored"]
    /\ UNCHANGED <<call, generators, sPc, sI, buffer, sLog, sOut, fPc, fI,
                   waiter, invoked, doneOrder, fOut, crashed, err, rendered, auxVars>>

\* Mutant: the goroutine ends without signalling the wait group.
UnitDoneLost(i) ==
    /\ ~crashed
    /\ unit[i] \in {"stored", "panicking"}
    /\ doneOrder' = Append(doneOrder, i)
    /\ unit' = [unit EXCEPT ![i] = IF unit[i] = "stored" THEN "done" ELSE "dying"]
    /\ UNCHANGED <<call, generators, sPc, sI, buffer, sLog, sOut, fPc, fI,
                   results, waiter, invoked, fOut, crashed, err, rendered, slotLog, auxVars>>

UnitDone(i) ==
    /\ ~crashed
    /\ unit[i] \in {"stored", "panicking"}
    /\ waiter' = waiter - 1
    /\ doneOrder' = Append(doneOrder, i)
    /\ unit' = [unit EXCEPT ![i] = IF unit[i] = "stored" THEN "done" ELSE "dying"]
    /\ UNCHANGED <<call, generators, sPc, sI, buffer, sLog, sOut, fPc, fI,
                   results, invoked, fOut, crashed, err, rendered, slotLog, auxVars>>

UnitCrash(i) ==
    /\ ~crashed
    /\ unit[i] = "dying"
    /\ crashed' = TRUE
    /\ UNCHANGED <<call, generators, sPc, sI, buffer, sLog, sOut, fPc, fI,
                   results, waiter, unit, invoked, doneOrder, fOut, err, rendered, slotLog, auxVars>>

\* Mutant: waiter.Wait() is missing; the launching goroutine goes on at once.
FJWaitNoBarrier ==
    /\ ~crashed
    /\ fPc = "wait"
    /\ fPc' = "join"
    /\ UNCHANGED <<call, generators, sPc, sI, buffer, sLog, sOut, fI, results,
                   waiter, unit, invoked, doneOrder, fOut, crashed, err, rendered, slotLog, auxVars>>

\* Mutant: the wait gives up once some unit has completed (a timeout).
FJWaitTimeout ==
    /\ ~crashed
    /\ fPc = "wait"
    /\ waiter = 0 \/ waiter < Len(generators)
    /\ fPc' = "join"
    /\ UNCHANGED <<call, generators, sPc, sI, buffer, sLog, sOut, fI, results,
                   waiter, unit, invoked, doneOrder, fOut, crashed, err, rendered, slotLog, auxVars>>

FJWait ==
    /\ ~crashed
    /\ fPc = "wait"
    /\ waiter = 0
    /\ fPc' = "join"
    /\ UNCHANGED <<call, generators, sPc, sI, buffer, sLog, sOut, fI, results,
                   waiter, unit, invoked, doneOrder, fOut, crashed, err, rendered, slotLog, auxVars>>

\* Mutant: the entries of the task list are cleared once their results are joined.
FJReturnClearing ==
    /\ ~crashed
    /\ fPc = "join"
    /\ fOut' = Returned(Join(results))
    /\ slotLog' = [k \in DOMAIN slotLog |-> Append(slotLog[k], Read(Launcher))]
    /\ fPc' = "returned"
    /\ generators' = [k \in 1 .. Len(generators) |-> Generator(FALSE, "")]
    /\ UNCHANGED <<call, sPc, sI, buffer, sLog, sOut, fI, results,
                   waiter, unit, invoked, doneOrder, crashed, err, rendered, auxVars>>

FJReturn ==
    /\ ~crashed
    /\ fPc = "join"
    /\ fOut' = Returned(Join(results))
    /\ slotLog' = [k \in DOMAIN slotLog |-> Append(slotLog[k], Read(Launcher))]
    /\ fPc' = "returned"
    /\ UNCHANGED <<call, generators, sPc, sI, buffer, sLog, sOut, fI, results,
                   waiter, unit, invoked, doneOrder, crashed, err, rendered, auxVars>>

----------------------------------------------------------------------------
(* GeneratorError *)

NoError == [type |-> "nil"]

\* An error of another type (errors.New(msg)): Error() returns its message.
LeafError(msg) == [type |-> "errorString", msg |-> msg]

\* fmt.Sprintf: the format is a sequence of pieces, each a literal or the verb
\* "%s", which is replaced by the next argument.
RECURSIVE Sprintf(_, _)
Sprintf(format, args) ==
    IF format = <<>> THEN ""
    ELSE IF Head(format) = "%s"
         THEN (IF args = <<>> THEN "%!s(MISSING)" ELSE Head(args))
                  \o Sprintf(Tail(format), IF args = <<>> THEN args ELSE Tail(args))
         ELSE Head(format) \o Sprintf(Tail(format), args)

generatorError(cause, format, args) ==
    [type |-> "GeneratorError", ErrorStr |-> Sprintf(format, args), Cause |-> cause]

\* Outcome of e.Error(): the string returned, or the runtime panic of calling
\* Error() on a nil error.
NilDereference == "invalid memory address or nil pointer dereference"

\* Mutant: only the direct cause's own message is appended, not its rendering.
ErrorOneLevel(e) ==
    IF e.type = "nil" THEN Panicked(NilDereference)
    ELSE IF e.type = "errorString" THEN Returned(e.msg)
    ELSE IF e.Cause.type = "nil" THEN Panicked(NilDereference)
    ELSE Returned(e.ErrorStr \o "\ncaused by " \o
                  (IF e.Cause.type = "errorString" THEN e.Cause.msg
                   ELSE e.Cause.ErrorStr))

RECURSIVE Error(_)
Error(e) ==
    IF e.type = "nil" THEN Panicked(NilDereference)
    ELSE IF e.type = "errorString" THEN Returned(e.msg)
    ELSE LET cause == Error(e.Cause)
         IN  IF cause.kind = "panic" THEN cause
             ELSE Returned(e.ErrorStr \o "\ncaused by " \o cause.value)

RECURSIVE Depth(_)
Depth(e) == IF e.type = "GeneratorError" THEN 1 + Depth(e.Cause) ELSE 0

Formats == { <<"building pattern">>, <<"task ", "%s", " failed">> }

FormatArgs == { <<"0">>, <<"1">> }

LeafMessages == { "invalid token", "boom" }

Wrap(format, args) ==
    /\ Depth(err) < MaxDepth
    /\ err' = generatorError(err, format, args)
    /\ rendered' = NoOutcome
    /\ UNCHANGED execVars

Render ==
    /\ err.type = "GeneratorError"
    /\ rendered = NoOutcome
    /\ rendered' = Error(err)
    /\ UNCHANGED <<err, execVars>>

----------------------------------------------------------------------------
(* Specification of the executors *)

InitState ==
    /\ sPc = "idle"
    /\ sI = 0
    /\ buffer = ""
    /\ sLog = <<>>
    /\ sOut = NoOutcome
    /\ fPc = "idle"
    /\ fI = 0
    /\ results = <<>>
    /\ waiter = 0
    /\ unit = [i \in Indices(Len(generators)) |-> "none"]
    /\ invoked = [i \in Indices(Len(generators)) |-> 0]
    /\ doneOrder = <<>>
    /\ fOut = NoOutcome
    /\ crashed = FALSE
    /\ err = NoError
    /\ rendered = NoOutcome
    /\ slotLog = [i \in Indices(Len(generators)) |-> <<>>]

InitExec ==
    /\ call \in Calls
    /\ generators = TaskList(call)
    /\ counter = <<>>
    /\ held = <<>>
    /\ runs = <<>>
    /\ InitState

\* Execute never reads numCpu: the calls are modelled on a machine with more
\* processors than units.
Init ==
    /\ InitExec
    /\ numCpu = MaxCpu

Next ==
    \/ SerialExecute
    \/ SerialGenerate
    \/ SerialWrite
    \/ SerialReturn
    \/ FJExecute
    \/ FJGo
    \/ FJLoopExit
    \/ \E i \in Indices(Len(generators)) : UnitGenerate(i)
    \/ \E i \in Indices(Len(generators)) : UnitStore(i)
    \/ \E i \in Indices(Len(generators)) : UnitDone(i)
    \/ \E i \in Indices(Len(generators)) : UnitCrash(i)
    \/ FJWait
    \/ FJReturn

Spec == Init /\ [][Next]_vars

\* The scheduling the Go runtime gives: every goroutine that can take a step
\* eventually takes it, and a panicking goroutine ends the process.
UnitStep(i) ==
    /\ i \in DOMAIN unit
    /\ UnitGenerate(i) \/ UnitStore(i) \/ UnitDone(i) \/ UnitCrash(i)

Fairness ==
    /\ WF_vars(SerialExecute \/ SerialGenerate \/ SerialWrite \/ SerialReturn)
    /\ WF_vars(FJExecute \/ FJGo \/ FJLoopExit \/ FJWait \/ FJReturn)
    /\ \A i \in 0 .. (MaxGens - 1) : WF_vars(UnitStep(i))

FairSpec == Spec /\ Fairness

----------------------------------------------------------------------------
(* Specification of the executors on a machine of numCpu processors: at    *)
(* most numCpu units run at a time, a unit that has started runs on its    *)
(* processor to its end, and the others wait for a free processor.         *)

Running == { i \in DOMAIN unit : unit[i] \in {"generating", "stored", "panicking"} }

\* Mutant: a unit that finds no free processor is dropped instead of waiting.
CapUnitGenerateDrop(i) ==
    IF Cardinality(Running) < numCpu
    THEN UnitGenerate(i)
    ELSE /\ ~crashed
         /\ unit[i] = "ready"
         /\ unit' = [unit EXCEPT ![i] = "done"]
         /\ waiter' = waiter - 1
         /\ doneOrder' = Append(doneOrder, i)
         /\ UNCHANGED <<call, generators, sPc, sI, buffer, sLog, sOut, fPc, fI,
                        results, invoked, fOut, crashed, err, rendered, slotLog, auxVars>>

CapUnitGenerate(i) ==
    /\ Cardinality(Running) < numCpu
    /\ UnitGenerate(i)

InitCap ==
    /\ InitExec
    /\ numCpu \in 1 .. MaxCpu

NextCap ==
    \/ SerialExecute
    \/ SerialGenerate
    \/ SerialWrite
    \/ SerialReturn
    \/ FJExecute
    \/ FJGo
    \/ FJLoopExit
    \/ \E i \in Indices(Len(generators)) : CapUnitGenerate(i)
    \/ \E i \in Indices(Len(generators)) : UnitStore(i)
    \/ \E i \in Indices(Len(generators)) : UnitDone(i)
    \/ \E i \in Indices(Len(generators)) : UnitCrash(i)
    \/ FJWait
    \/ FJReturn

SpecCap == InitCap /\ [][NextCap]_vars

----------------------------------------------------------------------------
(* Specification of executeGeneratorRepeatedly with a generator that has   *)
(* unsynchronized internal state: a pointer to a counter whose Generate    *)
(* reads the counter, then writes it back incremented and returns the      *)
(* value read as a decimal string.  The list elements hold the reference,  *)
(* so every invocation works on the counter the reference names.           *)

CounterGenerator(ref) == [panics |-> FALSE, counting |-> TRUE, ref |-> ref]

SerialCounterGenerate ==
    /\ sPc = "loop"
    /\ sI < Len(generators)
    /\ sLog' = Append(sLog, sI)
    /\ held' = [held EXCEPT ![Launcher] = counter[At(generators, sI).ref]]
    /\ sPc' = "generating"
    /\ UNCHANGED <<call, generators, sI, buffer, sOut, fPc, fI, results, waiter,
                   unit, invoked, doneOrder, fOut, crashed, err, rendered,
                   slotLog, numCpu, counter, runs>>

SerialCounterWrite ==
    /\ sPc = "generating"
    /\ counter' = [counter EXCEPT ![At(generators, sI).ref] = held[Launcher] + 1]
    /\ buffer' = buffer \o ToString(held[Launcher])
    /\ sI' = sI + 1
    /\ sPc' = "loop"
    /\ UNCHANGED <<call, generators, sLog, sOut, fPc, fI, results, waiter, unit,
                   invoked, doneOrder, fOut, crashed, err, rendered,
                   slotLog, numCpu, held, runs>>

CounterUnitGenerate(i) ==
    /\ unit[i] = "ready"
    /\ invoked' = [invoked EXCEPT ![i] = @ + 1]
    /\ held' = [held EXCEPT ![i] = counter[At(generators, i).ref]]
    /\ unit' = [unit EXCEPT ![i] = "generating"]
    /\ UNCHANGED <<call, generators, sPc, sI, buffer, sLog, sOut, fPc, fI,
                   results, waiter, doneOrder, fOut, crashed, err, rendered,
                   slotLog, numCpu, counter, runs>>

CounterUnitStore(i) ==
    /\ unit[i] = "generating"
    /\ counter' = [counter EXCEPT ![At(generators, i).ref] = held[i] + 1]
    /\ results' = [results EXCEPT ![i + 1] = ToString(held[i])]
    /\ slotLog' = [slotLog EXCEPT ![i] = Append(@, Write(i))]
    /\ unit' = [unit EXCEPT ![i] = "stored"]
    /\ UNCHANGED <<call, generators, sPc, sI, buffer, sLog, sOut, fPc, fI,
                   waiter, invoked, doneOrder, fOut, crashed, err, rendered,
                   numCpu, held, runs>>

InitShared ==
    /\ call \in { [via |-> "executeGeneratorRepeatedly",
                   generator |-> CounterGenerator(1), n |-> n] : n \in 0 .. MaxGens }
    /\ generators = TaskList(call)
    /\ counter = [r \in 1 .. MaxGens |-> 0]
    /\ held = [i \in Indices(Len(generators)) \cup {Launcher} |-> 0]
    /\ numCpu = MaxCpu
    /\ runs = <<>>
    /\ InitState

NextShared ==
    \/ SerialExecute
    \/ SerialCounterGenerate
    \/ SerialCounterWrite
    \/ SerialReturn
    \/ FJExecute
    \/ FJGo
    \/ FJLoopExit
    \/ \E i \in Indices(Len(generators)) : CounterUnitGenerate(i)
    \/ \E i \in Indices(Len(generators)) : CounterUnitStore(i)
    \/ \E i \in Indices(Len(generators)) : UnitDone(i)
    \/ FJWait
    \/ FJReturn

SpecShared == InitShared /\ [][NextShared]_vars

----------------------------------------------------------------------------
(* Specification of two Execute calls on one executor value, each with its *)
(* own task list, made one after the other or at the same time.  The       *)
(* executor types are empty structs: everything a call works on is a local *)
(* of that call, kept in runs[c].                                          *)

Other(c) == 3 - c

ReusePool == { Generator(FALSE, "a"), Generator(FALSE, "b") }

NewRun(executor, gs) ==
    [executor |-> executor, generators |-> gs, pc |-> "idle", i |-> 0,
     buffer |-> "", results |-> <<>>, waiter |-> 0,
     unit |-> [k \in Indices(Len(gs)) |-> "none"],
     out |-> NoOutcome, concurrent |-> FALSE]

RunFrame == UNCHANGED <<call, generators, sPc, sI, buffer, sLog, sOut, fPc, fI,
                        results, waiter, unit, invoked, doneOrder, fOut, crashed,
                        err, rendered, slotLog, numCpu, counter, held>>

RunExecute(c) ==
    /\ runs[c].pc = "idle"
    /\ runs' = [runs EXCEPT ![c] =
           [@ EXCEPT !.pc = "loop", !.i = 0, !.buffer = "",
                     !.results = [k \in 1 .. Len(runs[c].generators) |-> ""],
                     !.waiter = IF runs[c].executor = "forkJoin"
                                THEN Len(runs[c].generators) ELSE 0,
                     !.concurrent = runs[Other(c)].pc \notin {"idle", "returned"}]]
    /\ RunFrame

RunSerialStep(c) ==
    /\ runs[c].executor = "serial"
    /\ runs[c].pc = "loop"
    /\ runs[c].i < Len(runs[c].generators)
    /\ runs' = [runs EXCEPT ![c] =
           [@ EXCEPT !.buffer = @ \o At(runs[c].generators, runs[c].i).value,
                     !.i = @ + 1]]
    /\ RunFrame

RunSerialReturn(c) ==
    /\ runs[c].executor = "serial"
    /\ runs[c].pc = "loop"
    /\ ~(runs[c].i < Len(runs[c].generators))
    /\ runs' = [runs EXCEPT ![c] =
           [@ EXCEPT !.out = Returned(runs[c].buffer), !.pc = "returned"]]
    /\ RunFrame

RunGo(c) ==
    /\ runs[c].executor = "forkJoin"
    /\ runs[c].pc = "loop"
    /\ runs[c].i < Len(runs[c].generators)
    /\ runs' = [runs EXCEPT ![c] =
           [@ EXCEPT !.unit[runs[c].i] = "ready", !.i = @ + 1]]
    /\ RunFrame

RunLoopExit(c) ==
    /\ runs[c].executor = "forkJoin"
    /\ runs[c].pc = "loop"
    /\ ~(runs[c].i < Len(runs[c].generators))
    /\ runs' = [runs EXCEPT ![c] = [@ EXCEPT !.pc = "wait"]]
    /\ RunFrame

\* Mutant: results is a field of the executor value, shared by its calls: a
\* unit writes into the slice of the call that allocated last (the other
\* call's, when that one is under way and has the slot).
RunUnitSharedResults(c, i) ==
    /\ runs[c].unit[i] = "ready"
    /\ LET o == Other(c)
           target == IF runs[o].pc \notin {"idle", "returned"}
                        /\ i < Len(runs[o].results)
                     THEN o ELSE c
       IN  runs' = [runs EXCEPT
                       ![target].results[i + 1] = At(runs[c].generators, i).value,
                       ![c].unit[i] = "stored"]
    /\ RunFrame

RunUnit(c, i) ==
    /\ runs[c].unit[i] = "ready"
    /\ runs' = [runs EXCEPT ![c] =
           [@ EXCEPT !.results[i + 1] = At(runs[c].generators, i).value,
                     !.unit[i] = "stored"]]
    /\ RunFrame

RunUnitDone(c, i) ==
    /\ runs[c].unit[i] = "stored"
    /\ runs' = [runs EXCEPT ![c] =
           [@ EXCEPT !.waiter = @ - 1, !.unit[i] = "done"]]
    /\ RunFrame

RunWait(c) ==
    /\ runs[c].pc = "wait"
    /\ runs[c].waiter = 0
    /\ runs' = [runs EXCEPT ![c] = [@ EXCEPT !.pc = "join"]]
    /\ RunFrame

RunReturn(c) ==
    /\ runs[c].pc = "join"
    /\ runs' = [runs EXCEPT ![c] =
           [@ EXCEPT !.out = Returned(Join(runs[c].results)), !.pc = "returned"]]
    /\ RunFrame

InitReuse ==
    /\ call = [via |-> "Execute", generators |-> <<>>]
    /\ generators = <<>>
    /\ counter = <<>>
    /\ held = <<>>
    /\ numCpu = MaxCpu
    /\ InitState
    /\ \E e \in {"serial", "forkJoin"} :
         \E gs1 \in SeqsUpTo(ReusePool, MaxReuse) :
           \E gs2 \in SeqsUpTo(ReusePool, MaxReuse) \ {gs1} :
             runs = <<NewRun(e, gs1), NewRun(e, gs2)>>

NextReuse ==
    \E c \in 1 .. 2 :
        \/ RunExecute(c)
        \/ RunSerialStep(c)
        \/ RunSerialReturn(c)
        \/ RunGo(c)
        \/ RunLoopExit(c)
        \/ \E i \in Indices(Len(runs[c].generators)) : RunUnit(c, i)
        \/ \E i \in Indices(Len(runs[c].generators)) : RunUnitDone(c, i)
        \/ RunWait(c)
        \/ RunReturn(c)

SpecReuse == InitReuse /\ [][NextReuse]_vars

----------------------------------------------------------------------------
(* Specification of GeneratorError: errors are built by generatorError from *)
(* a nil or leaf cause and rendered by Error().                             *)

InitErr ==
    /\ call = [via |-> "Execute", generators |-> <<>>]
    /\ generators = <<>>
    /\ sPc = "idle"
    /\ sI = 0
    /\ buffer = ""
    /\ sLog = <<>>
    /\ sOut = NoOutcome
    /\ fPc = "idle"
    /\ fI = 0
    /\ results = <<>>
    /\ waiter = 0
    /\ unit = <<>>
    /\ invoked = <<>>
    /\ doneOrder = <<>>
    /\ fOut = NoOutcome
    /\ crashed = FALSE
    /\ err \in {NoError} \cup { LeafError(m) : m \in LeafMessages }
    /\ rendered = NoOutcome
    /\ slotLog = <<>>
    /\ numCpu = MaxCpu
    /\ counter = <<>>
    /\ held = <<>>
    /\ runs = <<>>

NextErr ==
    \/ \E format \in Formats, args \in FormatArgs : Wrap(format, args)
    \/ Render

SpecErr == InitErr /\ [][NextErr]_vars

----------------------------------------------------------------------------
(* Helpers of the properties *)

NumGens == Len(generators)

\* What task i contributes to the output: the string its generator returns;
\* a generator that panics records nothing and its slot keeps the zero value.
TaskResult(g) == IF g.panics THEN "" ELSE g.value

RECURSIVE InSubmissionOrder(_)
InSubmissionOrder(gs) ==
    IF gs = <<>> THEN ""
    ELSE InSubmissionOrder(SubSeq(gs, 1, Len(gs) - 1)) \o TaskResult(gs[Len(gs)])

InCompletionOrder ==
    InSubmissionOrder([k \in 1 .. Len(doneOrder) |-> At(generators, doneOrder[k])])

AllSucceed == \A k \in 1 .. NumGens : ~generators[k].panics

Failing == { i \in Indices(NumGens) : At(generators, i).panics }

LowestFailing == CHOOSE i \in Failing : \A j \in Failing : i <= j

UpTo(n) == [k \in 1 .. n |-> k - 1]

RECURSIVE Repeat(_, _)
Repeat(s, n) == IF n = 0 THEN "" ELSE s \o Repeat(s, n - 1)

----------------------------------------------------------------------------
(* C1: whenever the fork-join Execute has returned, whatever the order in  *)
(* which the units completed, the string it returned is the per-task       *)
(* results concatenated in submission order (index 0, 1, ..., N-1).        *)

C1_SubmissionOrder ==
    fPc = "returned" => fOut = Returned(InSubmissionOrder(generators))

\* Execute returned after the units completed out of submission order, and
\* concatenating in completion order would have given another string.
C1_Witness ==
    /\ fPc = "returned"
    /\ NumGens >= 2
    /\ doneOrder # UpTo(NumGens)
    /\ InCompletionOrder # InSubmissionOrder(generators)

----------------------------------------------------------------------------
(* C2: for a list of generators that all succeed, once both calls have     *)
(* returned, the serial and the fork-join Execute returned the same        *)
(* string, the generators' strings concatenated in submission order.       *)

C2_SerialEqualsForkJoin ==
    (AllSucceed /\ fPc = "returned") =>
        /\ sPc = "returned"
        /\ sOut = fOut
        /\ sOut.kind = "string"
        /\ sOut.value = InSubmissionOrder(generators)

C2_Witness ==
    /\ AllSucceed
    /\ sPc = "returned"
    /\ fPc = "returned"
    /\ NumGens >= 2
    /\ \E j, k \in 1 .. NumGens : generators[j].value # generators[k].value

----------------------------------------------------------------------------
(* C3 (as claimed): if one or more units fail, the fork-join Execute ends  *)
(* by handing its caller one GeneratorError that wraps the error of the    *)
(* lowest failing index, and never a string.                               *)

C3_ReportsLowestFailure ==
    ((fPc = "returned" \/ crashed) /\ Failing # {}) =>
        /\ fOut.kind = "error"
        /\ fOut.value.type = "GeneratorError"
        /\ fOut.value.Cause = LeafError(At(generators, LowestFailing).value)

----------------------------------------------------------------------------
(* C4 (as claimed): if generator k fails during the serial Execute, only   *)
(* generators 0..k were invoked and the caller receives a GeneratorError   *)
(* wrapping generator k's error, with no result string.                    *)

C4_SerialWrapsFailure ==
    (sPc \in {"returned", "panicked"} /\ Failing # {}) =>
        /\ sLog = UpTo(LowestFailing + 1)
        /\ sOut.kind = "error"
        /\ sOut.value.type = "GeneratorError"
        /\ sOut.value.Cause = LeafError(At(generators, LowestFailing).value)

----------------------------------------------------------------------------
(* C5: the fork-join Execute launches one unit per generator, no unit      *)
(* invokes Generate more than once, and when Execute returns every index   *)
(* 0..N-1 has been invoked exactly once and its unit has run to its end,   *)
(* whether or not sibling units failed.                                    *)

UnitEnded(i) == unit[i] \in {"done", "dying"}

----------------------------------------------------------------------------
(* C6: join barrier.  The launching goroutine is past waiter.Wait() (it    *)
(* reads the results, joins them or has returned) only when all N units    *)
(* have completed.                                                         *)

C6_JoinBarrier ==
    fPc \in {"join", "returned"} =>
        /\ waiter = 0
        /\ Len(doneOrder) = NumGens
        /\ \A i \in Indices(NumGens) : UnitEnded(i)

C6_Witness ==
    /\ fPc = "returned"
    /\ NumGens >= 2
    /\ Len(doneOrder) = NumGens

----------------------------------------------------------------------------
(* C7: the serial Execute invokes the generators one at a time in list     *)
(* order, each at most once, generator i only after generator i-1 has      *)
(* returned and been appended; when it returns, every generator has been   *)
(* invoked exactly once and the buffer holds the results in that order.    *)

C7_SerialInOrder ==
    /\ sPc \in {"idle", "loop", "returned"} => sLog = UpTo(sI)
    /\ sPc \in {"generating", "panicked"} => sLog = UpTo(sI + 1)
    /\ sPc # "idle" =>
           buffer = InSubmissionOrder(SubSeq(generators, 1, sI))
    /\ sPc = "returned" =>
           /\ sLog = UpTo(NumGens)
           /\ sOut = Returned(InSubmissionOrder(generators))

C7_Witness ==
    /\ sPc = "returned"
    /\ NumGens >= 2
    /\ sLog = UpTo(NumGens)
    /\ generators[1].value # generators[2].value

----------------------------------------------------------------------------
(* C8: for the empty task list both calls return the empty string, none    *)
(* fails, the fork-join call launches no unit and its wait does not block. *)

C8_EmptyList ==
    NumGens = 0 =>
        /\ sPc # "panicked" /\ ~crashed
        /\ sPc = "returned" => sOut = Returned("")
        /\ fPc = "returned" => fOut = Returned("")
        /\ sLog = <<>> /\ doneOrder = <<>> /\ DOMAIN unit = {}
        /\ fPc = "wait" => waiter = 0

C8_Witness ==
    /\ NumGens = 0
    /\ sOut = Returned("")
    /\ fOut = Returned("")

----------------------------------------------------------------------------
(* C9: executeGeneratorRepeatedly with a generator that returns s hands    *)
(* the executor a list of n elements, each that generator; the serial and  *)
(* the fork-join result are both s repeated n times, and for n = 0 the     *)
(* generator is never invoked.                                             *)

C9_Repeated ==
    (call.via = "executeGeneratorRepeatedly" /\ ~call.generator.panics) =>
        /\ Len(generators) = call.n
        /\ \A k \in 1 .. Len(generators) : generators[k] = call.generator
        /\ sPc = "returned" => sOut = Returned(Repeat(call.generator.value, call.n))
        /\ fPc = "returned" => fOut = Returned(Repeat(call.generator.value, call.n))
        /\ call.n = 0 => sLog = <<>> /\ \A i \in DOMAIN invoked : invoked[i] = 0

C9_Witness ==
    /\ call.via = "executeGeneratorRepeatedly"
    /\ call.n = 3
    /\ call.generator = Generator(FALSE, "a")
    /\ sOut = Returned("aaa")
    /\ fOut = Returned("aaa")

----------------------------------------------------------------------------
(* C10: a GeneratorError whose chain of causes ends in an error of another *)
(* type renders as the messages of the whole chain, outermost first, each  *)
(* followed by a new line and "caused by " and the next.                   *)

RECURSIVE ChainMessages(_)
ChainMessages(e) ==
    IF e.type = "GeneratorError" THEN <<e.ErrorStr>> \o ChainMessages(e.Cause)
    ELSE IF e.type = "errorString" THEN <<e.msg>>
    ELSE <<>>

RECURSIVE Innermost(_)
Innermost(e) == IF e.type = "GeneratorError" THEN Innermost(e.Cause) ELSE e

RECURSIVE JoinCausedBy(_)
JoinCausedBy(msgs) ==
    IF Len(msgs) = 1 THEN msgs[1]
    ELSE JoinCausedBy(SubSeq(msgs, 1, Len(msgs) - 1))
             \o "\ncaused by " \o msgs[Len(msgs)]

C10_RendersChain ==
    (rendered # NoOutcome /\ Innermost(err).type = "errorString") =>
        rendered = Returned(JoinCausedBy(ChainMessages(err)))

C10_Witness ==
    /\ Depth(err) >= 2
    /\ Innermost(err).type = "errorString"
    /\ rendered.kind = "string"
    /\ rendered.value =
           "building pattern\ncaused by task 1 failed\ncaused by invalid token"

----------------------------------------------------------------------------
(* C11 (as claimed): a GeneratorError built with no cause (Cause nil) is a *)
(* leaf failure: its Error() returns normally and gives the local message  *)
(* alone, without "caused by".                                             *)

C11_LeafRendersMessage ==
    (rendered # NoOutcome /\ err.type = "GeneratorError" /\ err.Cause.type = "nil") =>
        rendered = Returned(err.ErrorStr)

----------------------------------------------------------------------------
(* C14: the fork-join Execute has no timeout and no cancellation.  In      *)
(* every behaviour in which some unit stays inside Generate for ever, the  *)
(* launching goroutine never gets past the wait and Execute never returns, *)
(* whatever the other units do.                                            *)

C14_HungGeneratorHangsJoin ==
    \A i \in 0 .. (MaxGens - 1) :
        <>[](i \in DOMAIN unit /\ unit[i] = "generating")
            => [](fPc \notin {"join", "returned"})

\* One unit is still inside Generate, every other unit has completed and
\* the launching goroutine is blocked in the wait.
C14_Witness ==
    /\ fPc = "wait"
    /\ NumGens >= 2
    /\ \E i \in Indices(NumGens) :
           /\ unit[i] = "generating"
           /\ \A j \in Indices(NumGens) \ {i} : unit[j] = "done"
    /\ ~ENABLED FJWait

----------------------------------------------------------------------------
(* C17: the wait counter is set to N before any unit is launched, goes     *)
(* down by one for each unit that finishes and never below zero; and when  *)
(* goroutines are scheduled fairly and every Generate call returns, the    *)
(* fork-join Execute that was started eventually returns.                  *)

C17_EventuallyReturns ==
    /\ [](fPc = "idle" => \A i \in Indices(NumGens) : unit[i] = "none")
    /\ [](fPc # "idle" =>
            /\ waiter >= 0
            /\ waiter = NumGens - Len(doneOrder)
            /\ Cardinality({ doneOrder[k] : k \in 1 .. Len(doneOrder) })
                   = Len(doneOrder))
    /\ (AllSucceed /\ fPc = "loop") ~> (fPc = "returned")

C17_Witness ==
    /\ AllSucceed
    /\ NumGens >= 2
    /\ fPc = "returned"
    /\ waiter = 0
    /\ Len(doneOrder) = NumGens

----------------------------------------------------------------------------
(* C18: neither executor modifies the caller's task list: in every state,  *)
(* during and after both calls, the generators sequence is the list the    *)
(* call was made with, same length and same elements in the same places.   *)

C18_TaskListUnchanged ==
    /\ generators = TaskList(call)
    /\ Len(generators) = Len(TaskList(call))

C18_Witness ==
    /\ sPc \in {"returned", "panicked"}
    /\ fPc = "returned"
    /\ NumGens >= 2
    /\ generators = TaskList(call)

----------------------------------------------------------------------------
(* C13: the results slice is accessed without a race.  A slot is written   *)
(* only by the unit of its own index and never more than once, exactly     *)
(* once as soon as that unit has executed its assignment; it is read only  *)
(* by the launching goroutine, after the wait, when every unit has ended,  *)
(* and no write follows a read.                                            *)

Writes(i) == { k \in 1 .. Len(slotLog[i]) : slotLog[i][k].op = "write" }

Reads(i) == { k \in 1 .. Len(slotLog[i]) : slotLog[i][k].op = "read" }

C13_SlotOwnership ==
    \A i \in DOMAIN slotLog :
        /\ \A k \in Writes(i) : slotLog[i][k].by = i
        /\ Cardinality(Writes(i)) <= 1
        /\ unit[i] \in {"stored", "done"} => Cardinality(Writes(i)) = 1
        /\ unit[i] \in {"none", "ready", "generating"} => slotLog[i] = <<>>
        /\ \A k \in Reads(i) :
               /\ slotLog[i][k].by = Launcher
               /\ fPc = "returned"
               /\ \A j \in Indices(NumGens) : UnitEnded(j)
               /\ \A w \in Writes(i) : w < k
        /\ (fPc = "returned" /\ ~At(generators, i).panics) =>
               slotLog[i] = <<Write(i), Read(Launcher)>>

C13_Witness ==
    /\ fPc = "returned"
    /\ NumGens >= 2
    /\ \A i \in Indices(NumGens) : slotLog[i] = <<Write(i), Read(Launcher)>>

----------------------------------------------------------------------------
(* C15: for every number of processors from 1 to more than N, with no more *)
(* units running at a time than processors, the fork-join Execute is never *)
(* blocked by the cap before it returns, and what it returns is the same   *)
(* string: all N results concatenated in submission order.                 *)

C15_CapIndependent ==
    /\ Cardinality(Running) <= numCpu
    /\ (~crashed /\ fPc # "returned") => ENABLED NextCap
    /\ fPc = "returned" =>
           /\ Len(doneOrder) = NumGens
           /\ fOut.kind = "string"
           /\ fOut.value = InSubmissionOrder(generators)

\* One processor for several units, which completed out of submission order.
C15_Witness ==
    /\ numCpu = 1
    /\ NumGens >= 2
    /\ AllSucceed
    /\ fPc = "returned"
    /\ doneOrder # UpTo(NumGens)
    /\ fOut.value = InSubmissionOrder(generators)

----------------------------------------------------------------------------
(* C16: executeGeneratorRepeatedly puts the one generator value in all n   *)
(* positions, so all invocations work on the same counter.  Under the      *)
(* serial executor they never overlap: no other invocation touches the     *)
(* counter while one is inside Generate, and the n values returned are     *)
(* consecutive.  (That two fork-join units can be inside Generate on the   *)
(* same counter at once, and the result then differs, is the witness.)     *)

RECURSIVE CountFrom(_, _)
CountFrom(from, n) ==
    IF n = 0 THEN "" ELSE ToString(from) \o CountFrom(from + 1, n - 1)

InsideGenerate == { i \in DOMAIN unit : unit[i] = "generating" }

C16_SharedGenerator ==
    /\ \A k \in 1 .. Len(generators) : generators[k] = call.generator
    /\ Len(generators) = call.n
    /\ sPc = "generating" =>
           /\ held[Launcher] = counter[call.generator.ref]
           /\ InsideGenerate = {}
    /\ sPc = "returned" => sOut = Returned(CountFrom(0, call.n))
    /\ (sPc = "returned" /\ fPc = "idle") => counter[call.generator.ref] = call.n

\* Two units were inside Generate on the shared counter at once (both read
\* the same value before either wrote it back), and the fork-join call
\* returned a string that no serial run from the same counter returns.
C16_Witness ==
    /\ call.n >= 2
    /\ fPc = "returned"
    /\ \E i, j \in Indices(NumGens) :
           /\ i # j
           /\ At(generators, i).ref = At(generators, j).ref
           /\ held[i] = held[j]
    /\ sOut = Returned(CountFrom(0, call.n))
    /\ fOut # Returned(CountFrom(call.n, call.n))

\* The overlap itself: two units inside Generate on the same generator.
C16_Overlap ==
    \E i, j \in InsideGenerate :
        i # j /\ At(generators, i) = At(generators, j)

----------------------------------------------------------------------------
(* C12: two Execute calls on one executor value, with different task       *)
(* lists, one after the other or overlapping: each call works only on its  *)
(* own results and returns exactly the concatenation of its own task       *)
(* list's results; nothing of the other call's appears in it or is         *)
(* missing from it.                                                        *)

C12_CallsIndependent ==
    \A c \in DOMAIN runs :
        LET r == runs[c]
        IN  /\ r.executor = runs[Other(c)].executor
            /\ \A k \in 1 .. Len(r.results) :
                   r.results[k] = IF r.unit[k - 1] \in {"stored", "done"}
                                  THEN r.generators[k].value ELSE ""
            /\ (r.executor = "serial" /\ r.pc # "idle") =>
                   r.buffer = InSubmissionOrder(SubSeq(r.generators, 1, r.i))
            /\ r.pc = "returned" =>
                   r.out = Returned(InSubmissionOrder(r.generators))

\* Both calls ran on the fork-join executor at the same time, with lists of
\* which neither is the other's, and each returned its own concatenation.
C12_Witness ==
    /\ runs[1].executor = "forkJoin"
    /\ runs[2].concurrent
    /\ runs[1].pc = "returned" /\ runs[2].pc = "returned"
    /\ Len(runs[1].generators) = 2 /\ Len(runs[2].generators) = 2
    /\ runs[1].out # runs[2].out
    /\ runs[1].out = Returned(InSubmissionOrder(runs[1].generators))
    /\ runs[2].out = Returned(InSubmissionOrder(runs[2].generators))

====
